---- MODULE Spec2Model ----
(***************************************************************************)
(* Race control: the offline result queue (OfflineStorage), the foreground *)
(* application (RaceControlApp, RaceTimer) and the REST server with its   *)
(* SQLite store.  Requests issued by the async handlers of the foreground  *)
(* are messages in flight: a handler runs up to its await, and resumes     *)
(* when the response is delivered; other handlers run in between.          *)
(***************************************************************************)
EXTENDS Integers, Sequences, FiniteSets, Bags, TLC

\* ---------------------------------------------------------------- bounds
MaxRaces == 2      \* races ever created (AUTOINCREMENT ids 1..MaxRaces)
MaxTime == 2       \* wall clock values 1..MaxTime
MaxRunner == 2     \* runner numbers typed by the operator
MaxFinishes == 2   \* finishes recorded by the operator in one run
MaxInFlight == 2   \* requests in flight at the same time
MaxRows == 2       \* rows of the remote results table
MaxForeign == 2    \* batches posted by other clients of the REST interface
MaxTokens == 1     \* tokens generateDeviceId() may draw besides ThisDevice

RaceIds == 1..MaxRaces
Times == 1..MaxTime
Runners == 1..MaxRunner

\* ------------------------------------------------------------ data shapes
\* localStorage has no 'race-control-data' key: getStoredData() is null
NoData == [present |-> FALSE, raceId |-> 0, results |-> <<>>]

\* no row of table races
NoRace == [exists |-> FALSE, status |-> "pending", startTime |-> 0]

\* no open transaction on the server's connection
NoTx == [open |-> FALSE, races |-> [r \in RaceIds |-> NoRace], results |-> EmptyBag, seq |-> 0]

\* device tokens: this device's generateDeviceId() drew token 0; the k-th batch
\* of another client of the REST interface carries the token k
ThisDevice == 0

\* the tokens generateDeviceId() may draw in this browser
DeviceTokens == {ThisDevice - t : t \in 0..MaxTokens}

VARIABLES
    now,            \* Date.now() of the device
    isOnline,       \* OfflineStorage.isOnline
    stored,         \* localStorage['race-control-data']
    syncStatusHidden, \* the sync status indicator has class 'hidden'
    offlineStorage, \* window.offlineStorage: deviceId (<<>> is null)
    localDeviceId,  \* localStorage['device-id'] (<<>> is no such key)
    generated,      \* history: the tokens generateDeviceId() returned
    caches,         \* CacheStorage of the origin: per cache name, exists and entries
    worker,         \* state of the service worker: parsed, installed, activated, redundant
    swRet,          \* the service worker event handled in the step just taken
    syncRet,        \* what syncResults() returned in the step just taken
    timerRet,       \* the RaceTimer method called in the step just taken, and its value
    currentRaceId,  \* RaceControlApp.currentRaceId (0 is null)
    results,        \* RaceControlApp.results
    timer,          \* RaceTimer: isRunning, startTime (0 is null), ticks (live intervals)
    buttons,        \* disabled flags of startTimer, recordFinish, endRace
    net,            \* requests and responses in flight
    dbRaces,        \* table races as the server's connection sees it
    dbResults,      \* table results as the server's connection sees it
    dbSeq,          \* sqlite_sequence of table races
    dbTx,           \* the open transaction: what ROLLBACK restores
    recorded,       \* history: every finish recordFinish() has stored
    foreign,        \* history: number of batches other clients posted
    cleared,        \* history: the queued finishes the operator cleared
    rejected        \* history: the batches of other clients answered with an error

vars == <<now, isOnline, stored, syncStatusHidden, offlineStorage, localDeviceId, generated,
          caches, worker, swRet, syncRet, timerRet, currentRaceId, results, timer, buttons,
          net, dbRaces, dbResults, dbSeq, dbTx, recorded, foreign, cleared, rejected>>

clientVars == <<now, isOnline, stored, syncStatusHidden, currentRaceId, results, timer, buttons>>
deviceVars == <<offlineStorage, localDeviceId, generated>>
swVars == <<caches, worker, swRet>>
serverVars == <<dbRaces, dbResults, dbSeq, dbTx>>
appVars == <<currentRaceId, results, timer, buttons>>
history == <<recorded, foreign, cleared, rejected>>

\* ---------------------------------------------------------------- helpers
\* the bag of the elements of the sequence s
RECURSIVE SeqToBag(_)
SeqToBag(s) == IF s = <<>> THEN EmptyBag ELSE SetToBag({Head(s)}) (+) SeqToBag(Tail(s))

\* the messages in flight b and the message m
Send(b, m) == b (+) SetToBag({m})

\* the messages in flight b without one copy of the message m
Take(b, m) == b (-) SetToBag({m})

\* getDeviceId()
getDeviceId == offlineStorage.deviceId[1]

\* a request as fetch() sends it
Request(op, raceId, body) ==
    [op |-> op, stage |-> "request", raceId |-> raceId, results |-> body,
     deviceId |-> getDeviceId, status |-> "none", race |-> NoRace]

\* response.ok
Ok(m) == m.status = "200"

\* ---------------------------------------------------------- OfflineStorage
\* getStoredData(): the parsed record, or null
getStoredData == stored

\* checkUnsyncedData(): hasUnsyncedData for a stored record d
hasUnsyncedData(d) == d.present /\ Len(d.results) > 0

\* storeResult() with unshift() in place of push(): the new result goes first
storeResult_Unshift(d, result) ==
    LET data == IF d.present THEN d
                ELSE [present |-> TRUE, raceId |-> result.raceId, results |-> <<>>]
        same == IF data.raceId # result.raceId
                THEN [present |-> TRUE, raceId |-> result.raceId, results |-> <<>>]
                ELSE data
    IN  [same EXCEPT !.results = <<result>> \o same.results]

\* storeResult() that relabels the stored record for another race instead of
\* replacing it: the old entries stay
storeResult_Relabels(d, result) ==
    LET data == IF d.present THEN d
                ELSE [present |-> TRUE, raceId |-> result.raceId, results |-> <<>>]
    IN  [present |-> TRUE, raceId |-> result.raceId,
         results |-> Append(data.results, result)]

\* storeResult() without the check that the stored record is for the same race
storeResult_NoRaceCheck(d, result) ==
    LET data == IF d.present THEN d
                ELSE [present |-> TRUE, raceId |-> result.raceId, results |-> <<>>]
    IN  [data EXCEPT !.results = Append(data.results, result)]

\* storeResult(result): the record storeRaceData() writes
storeResult(d, result) ==
    LET data == IF d.present THEN d
                ELSE [present |-> TRUE, raceId |-> result.raceId, results |-> <<>>]
        same == IF data.raceId # result.raceId
                THEN [present |-> TRUE, raceId |-> result.raceId, results |-> <<>>]
                ELSE data
    IN  [same EXCEPT !.results = Append(same.results, result)]

\* clearResults(): localStorage.removeItem(storageKey)
clearResults == NoData

\* the body entries JSON.stringify(data.results) carries, as the server reads them
BodyOf(rs) == [i \in 1..Len(rs) |->
                 [runnerNumber |-> rs[i].runnerNumber, finishTime |-> rs[i].finishTime]]

\* what syncResults() returns together with the notification it shows
Returns(value, message) == [value |-> value, message |-> message]

\* a call of a method of RaceTimer: the state the timer was in, the argument
\* list, and what the method returned (0 is null or undefined)
Called(op, from, arg, value) == [op |-> op, from |-> from, arg |-> arg, value |-> value]

\* no method of RaceTimer was called on its own in this step
NoCall == timerRet' = Called("none", "Idle", <<>>, 0)

\* the page is not loaded again in this step, and the service worker handles
\* no event in it
NoLoad == UNCHANGED <<deviceVars, swVars>>

\* no call of syncResults() returned in this step
NoReturn == syncRet' = Returns(FALSE, "none") /\ NoCall /\ NoLoad

\* checkUnsyncedData() that does not look at the connectivity flag
checkUnsyncedData_IgnoresOnline(data, online) == syncStatusHidden' = ~hasUnsyncedData(data)

\* checkUnsyncedData() on the stored record data with this.isOnline = online:
\* the indicator is shown when there are queued results and the device is online
checkUnsyncedData(data, online) == syncStatusHidden' = ~(hasUnsyncedData(data) /\ online)

\* the constructor with no look at localStorage: a new token on every start
constructor_AlwaysGenerates(local, token) ==
    [deviceId |-> <<token>>, local |-> <<token>>, generated |-> <<token>>]

\* the device id part of the constructor: local is localStorage['device-id'],
\* token is what generateDeviceId() would draw
constructor(local, token) ==
    IF local # <<>>
    THEN [deviceId |-> local, local |-> local, generated |-> <<>>]
    ELSE [deviceId |-> <<token>>, local |-> <<token>>, generated |-> <<token>>]

\* the page is loaded again: a new OfflineStorage, RaceTimer and RaceControlApp
\* over the same localStorage.  navigator.onLine is online; the requests of the
\* page that is gone are aborted and their responses reach nobody.
pageLoad(token, online) ==
    /\ LET c == constructor(localDeviceId, token)
       IN  /\ offlineStorage' = [deviceId |-> c.deviceId]
           /\ localDeviceId' = c.local
           /\ generated' = generated \o c.generated
    /\ isOnline' = online
    /\ stored' = stored
    /\ checkUnsyncedData(stored, online)
    /\ currentRaceId' = 0
    /\ results' = <<>>
    /\ timer' = [isRunning |-> FALSE, startTime |-> 0, ticks |-> 0]
    /\ buttons' = [startTimer |-> TRUE, recordFinish |-> TRUE, endRace |-> TRUE]
    /\ net' = EmptyBag
    /\ syncRet' = Returns(FALSE, "none")
    /\ NoCall
    /\ UNCHANGED swVars
    /\ UNCHANGED <<now, serverVars, history>>

\* handleConnectionChange() that starts the upload when the device comes online
handleConnectionChange_AutoSync(online) ==
    /\ isOnline' = online
    /\ stored' = stored
    /\ checkUnsyncedData(stored, online)
    /\ net' = IF online /\ hasUnsyncedData(stored) /\ BagCardinality(net) < MaxInFlight
              THEN Send(net, Request("syncResults", stored.raceId, BodyOf(stored.results)))
              ELSE net
    /\ NoReturn
    /\ UNCHANGED <<now, appVars, serverVars, history>>

\* handleConnectionChange(true) / handleConnectionChange(false)
handleConnectionChange(online) ==
    /\ isOnline' = online
    /\ stored' = stored
    /\ checkUnsyncedData(stored, online)
    /\ NoReturn
    /\ UNCHANGED <<now, appVars, net, serverVars, history>>

\* syncResults() without the check of the connectivity flag
syncResults_NoOnlineCheck ==
    LET data == getStoredData IN
    IF ~hasUnsyncedData(data)
    THEN /\ syncRet' = Returns(FALSE, "No data to synchronize") /\ NoCall /\ NoLoad
         /\ UNCHANGED <<now, isOnline, stored, syncStatusHidden, appVars, net, serverVars, history>>
    ELSE /\ BagCardinality(net) < MaxInFlight
         /\ net' = Send(net, Request("syncResults", data.raceId, BodyOf(data.results)))
         /\ NoReturn
         /\ UNCHANGED <<clientVars, serverVars, history>>

\* syncResults() without the check for an empty queue
syncResults_SendsEmpty ==
    IF ~isOnline
    THEN /\ syncRet' = Returns(FALSE, "Cannot sync while offline") /\ NoCall /\ NoLoad
         /\ UNCHANGED <<now, isOnline, stored, syncStatusHidden, appVars, net, serverVars, history>>
    ELSE LET data == getStoredData IN
         /\ BagCardinality(net) < MaxInFlight
         /\ net' = Send(net, Request("syncResults", data.raceId, BodyOf(data.results)))
         /\ NoReturn
         /\ UNCHANGED <<clientVars, serverVars, history>>

\* syncResults() up to its await: the two early returns, or the fetch
syncResults ==
    IF ~isOnline
    THEN /\ syncRet' = Returns(FALSE, "Cannot sync while offline") /\ NoCall /\ NoLoad
         /\ UNCHANGED <<now, isOnline, stored, syncStatusHidden, appVars, net, serverVars, history>>
    ELSE LET data == getStoredData IN
         IF ~hasUnsyncedData(data)
         THEN /\ syncRet' = Returns(FALSE, "No data to synchronize") /\ NoCall /\ NoLoad
              /\ UNCHANGED <<now, isOnline, stored, syncStatusHidden, appVars, net, serverVars, history>>
         ELSE /\ BagCardinality(net) < MaxInFlight
              /\ net' = Send(net, Request("syncResults", data.raceId, BodyOf(data.results)))
              /\ NoReturn
              /\ UNCHANGED <<clientVars, serverVars, history>>

\* syncResults() after its await, clearing the queue before it looks at response.ok
syncResultsDone_ClearsFirst(m) ==
    /\ BagIn(m, net)
    /\ m.op = "syncResults"
    /\ m.stage = "response"
    /\ net' = Take(net, m)
    /\ stored' = clearResults
    /\ checkUnsyncedData(stored', isOnline)
    /\ syncRet' = IF Ok(m) THEN Returns(TRUE, "Results synchronized successfully")
                  ELSE Returns(FALSE, "Failed to synchronize results")
    /\ NoCall /\ NoLoad
    /\ UNCHANGED <<now, isOnline, appVars, serverVars, history>>

\* syncResults() after its await, on the response m
syncResultsDone(m) ==
    /\ BagIn(m, net)
    /\ m.op = "syncResults"
    /\ m.stage = "response"
    /\ net' = Take(net, m)
    /\ IF Ok(m)
       THEN /\ stored' = clearResults
            /\ checkUnsyncedData(stored', isOnline)
            /\ syncRet' = Returns(TRUE, "Results synchronized successfully")
       ELSE /\ UNCHANGED <<stored, syncStatusHidden>>
            /\ syncRet' = Returns(FALSE, "Failed to synchronize results")
    /\ NoCall /\ NoLoad
    /\ UNCHANGED <<now, isOnline, appVars, serverVars, history>>

\* ---------------------------------------------------------------- RaceTimer
\* the timer the constructor leaves
NewTimer == [isRunning |-> FALSE, startTime |-> 0, ticks |-> 0]

\* Idle: never started or reset; Running; Stopped: stopped with its startTime kept
StateOf(t) == IF t.isRunning THEN "Running" ELSE IF t.startTime = 0 THEN "Idle" ELSE "Stopped"

\* start() that starts over on a running timer
start_Restarts(t, arg) ==
    [isRunning |-> TRUE,
     startTime |-> IF arg # <<>> /\ arg[1] # 0 THEN arg[1] ELSE now,
     ticks |-> t.ticks + 1]

\* start(startTime): the timer afterwards.  arg is the argument list: <<>> for
\* start(), <<v>> for start(v); startTime || Date.now() takes the clock for 0 too
start(t, arg) ==
    IF t.isRunning THEN t
    ELSE [isRunning |-> TRUE,
          startTime |-> IF arg # <<>> /\ arg[1] # 0 THEN arg[1] ELSE now,
          ticks |-> t.ticks + 1]

\* what start(startTime) returns: this.startTime on both paths
startReturns(t, arg) == start(t, arg).startTime

\* stop() without clearInterval: the interval start() set keeps firing
stop_KeepsInterval(t) == IF ~t.isRunning THEN t ELSE [t EXCEPT !.isRunning = FALSE]

\* stop() without the test of isRunning
stop_NoGuard(t) == [t EXCEPT !.isRunning = FALSE, !.ticks = @ - 1]

\* stop(): clearInterval of the interval start() set
stop(t) == IF ~t.isRunning THEN t ELSE [t EXCEPT !.isRunning = FALSE, !.ticks = @ - 1]

\* reset() that stops the timer and keeps its startTime
reset_KeepsStart(t) == stop(t)

\* reset()
reset(t) == [stop(t) EXCEPT !.startTime = 0]

\* getElapsedTime()
getElapsedTime(t) == IF t.startTime = 0 THEN 0 ELSE now - t.startTime

\* RaceTimer.recordFinish() without the test of isRunning
RaceTimer_recordFinish_Always(t) == now

\* RaceTimer.recordFinish(): Date.now(), or null (0) when the timer is not running
RaceTimer_recordFinish(t) == IF ~t.isRunning THEN 0 ELSE now

\* a method of RaceTimer is called with arg: it returns value and leaves the timer t
TimerCall(op, arg, value, t) ==
    /\ timer' = t
    /\ timerRet' = Called(op, StateOf(timer), arg, value)
    /\ NoLoad
    /\ syncRet' = Returns(FALSE, "none")
    /\ UNCHANGED <<now, isOnline, stored, syncStatusHidden, currentRaceId, results, buttons, net,
                   serverVars, history>>

callStart(arg) == TimerCall("start", arg, startReturns(timer, arg), start(timer, arg))
callStop == TimerCall("stop", <<>>, 0, stop(timer))
callReset == TimerCall("reset", <<>>, 0, reset(timer))
callGetElapsedTime == TimerCall("getElapsedTime", <<>>, getElapsedTime(timer), timer)
callRecordFinish == TimerCall("recordFinish", <<>>, RaceTimer_recordFinish(timer), timer)

\* ----------------------------------------------------------- RaceControlApp
\* the entries uploadResults() maps this.results to
Entry(runnerNumber, finishTime) == [runnerNumber |-> runnerNumber, finishTime |-> finishTime]

\* button states loadRaceControl() sets for a race of the given status
ButtonsFor(status) ==
    IF status = "pending"
    THEN [startTimer |-> FALSE, recordFinish |-> TRUE, endRace |-> TRUE]
    ELSE IF status = "active"
    THEN [startTimer |-> TRUE, recordFinish |-> FALSE, endRace |-> FALSE]
    ELSE [startTimer |-> TRUE, recordFinish |-> TRUE, endRace |-> TRUE]

\* the timer loadRaceControl() leaves for a race row
TimerFor(race) ==
    IF race.status = "pending" THEN reset(timer)
    ELSE IF race.status = "active"
    THEN (IF race.startTime # 0 THEN start(reset(timer), <<race.startTime>>) ELSE reset(timer))
    ELSE (IF race.startTime # 0 THEN stop(start(reset(timer), <<race.startTime>>))
          ELSE reset(timer))

\* createRace() up to its await (name and date filled in)
createRace ==
    /\ isOnline
    /\ BagCardinality(net) < MaxInFlight
    /\ dbSeq + BagCardinality(net) < MaxRaces
    /\ net' = Send(net, Request("createRace", 0, <<>>))
    /\ NoReturn
    /\ UNCHANGED <<clientVars, serverVars, history>>

\* createRace() after its await: on success it calls loadRaceControl(race.id)
createRaceDone(m) ==
    /\ BagIn(m, net)
    /\ m.op = "createRace"
    /\ m.stage = "response"
    /\ net' = IF Ok(m) /\ isOnline
              THEN Send(Take(net, m), Request("loadRaceControl", m.raceId, <<>>))
              ELSE Take(net, m)
    /\ NoReturn
    /\ UNCHANGED <<clientVars, serverVars, history>>

\* loadRaceControl(raceId) up to its await, from the card of a listed race
loadRaceControl(raceId) ==
    /\ raceId \in 1..dbSeq
    /\ isOnline
    /\ BagCardinality(net) < MaxInFlight
    /\ net' = Send(net, Request("loadRaceControl", raceId, <<>>))
    /\ NoReturn
    /\ UNCHANGED <<clientVars, serverVars, history>>

\* loadRaceControl(raceId) after its await
loadRaceControlDone(m) ==
    /\ BagIn(m, net)
    /\ m.op = "loadRaceControl"
    /\ m.stage = "response"
    /\ net' = Take(net, m)
    /\ IF Ok(m)
       THEN LET race == m.race
                storedData == getStoredData
            IN  /\ currentRaceId' = m.raceId
                /\ timer' = TimerFor(race)
                /\ buttons' = ButtonsFor(race.status)
                /\ results' = IF storedData.present /\ storedData.raceId = m.raceId
                              THEN BodyOf(storedData.results)
                              ELSE <<>>
       ELSE UNCHANGED appVars
    /\ NoReturn
    /\ UNCHANGED <<now, isOnline, stored, syncStatusHidden, serverVars, history>>

\* startRace() up to its await
startRace ==
    /\ currentRaceId # 0
    /\ ~buttons.startTimer
    /\ isOnline
    /\ BagCardinality(net) < MaxInFlight
    /\ timer' = start(timer, <<>>)
    /\ net' = Send(net, Request("startRace", currentRaceId, <<>>))
    /\ NoReturn
    /\ UNCHANGED <<now, isOnline, stored, syncStatusHidden, currentRaceId, results, buttons,
                   serverVars, history>>

\* startRace() after its await
startRaceDone(m) ==
    /\ BagIn(m, net)
    /\ m.op = "startRace"
    /\ m.stage = "response"
    /\ net' = Take(net, m)
    /\ IF Ok(m)
       THEN /\ buttons' = [startTimer |-> TRUE, recordFinish |-> FALSE, endRace |-> FALSE]
            /\ timer' = timer
       ELSE IF m.status = "error"
       THEN UNCHANGED <<buttons, timer>>
       ELSE /\ timer' = stop(timer)
            /\ buttons' = buttons
    /\ NoReturn
    /\ UNCHANGED <<now, isOnline, stored, syncStatusHidden, currentRaceId, results,
                   serverVars, history>>

\* recordFinish() with the runner number typed into the form
recordFinish(runnerNumber) ==
    /\ currentRaceId # 0
    /\ timer.isRunning
    /\ ~buttons.recordFinish
    /\ runnerNumber > 0
    /\ BagCardinality(recorded) < MaxFinishes
    /\ LET finishTime == RaceTimer_recordFinish(timer)
           result == [raceId |-> currentRaceId, runnerNumber |-> runnerNumber,
                      finishTime |-> finishTime]
       IN  /\ results' = Append(results, Entry(runnerNumber, finishTime))
           /\ stored' = storeResult(getStoredData, result)
           /\ checkUnsyncedData(stored', isOnline)
           /\ recorded' = recorded (+) SetToBag({result})
    /\ NoReturn
    /\ UNCHANGED <<now, isOnline, currentRaceId, timer, buttons, net,
                   serverVars, foreign, cleared, rejected>>

\* uploadResults() without the check of the connectivity flag
uploadResults_NoOnlineCheck ==
    /\ currentRaceId # 0
    /\ Len(results) # 0
    /\ BagCardinality(net) < MaxInFlight
    /\ net' = Send(net, Request("uploadResults", currentRaceId, results))
    /\ NoReturn
    /\ UNCHANGED <<clientVars, serverVars, history>>

\* uploadResults() up to its await
uploadResults ==
    /\ currentRaceId # 0
    /\ Len(results) # 0
    /\ isOnline
    /\ BagCardinality(net) < MaxInFlight
    /\ net' = Send(net, Request("uploadResults", currentRaceId, results))
    /\ NoReturn
    /\ UNCHANGED <<clientVars, serverVars, history>>

\* uploadResults() after its await
uploadResultsDone(m) ==
    /\ BagIn(m, net)
    /\ m.op = "uploadResults"
    /\ m.stage = "response"
    /\ net' = Take(net, m)
    /\ IF Ok(m)
       THEN /\ results' = <<>>
            /\ stored' = clearResults
            /\ checkUnsyncedData(stored', isOnline)
       ELSE UNCHANGED <<results, stored, syncStatusHidden>>
    /\ NoReturn
    /\ UNCHANGED <<now, isOnline, currentRaceId, timer, buttons,
                   serverVars, history>>

\* endRace() up to its await; offline it only stops the timer
endRace ==
    /\ currentRaceId # 0
    /\ ~buttons.endRace
    /\ timer' = stop(timer)
    /\ IF isOnline
       THEN /\ BagCardinality(net) < MaxInFlight
            /\ net' = Send(net, Request("endRace", currentRaceId, <<>>))
       ELSE net' = net
    /\ NoReturn
    /\ UNCHANGED <<now, isOnline, stored, syncStatusHidden, currentRaceId, results, buttons,
                   serverVars, history>>

\* endRace() after its await; the operator answers the upload confirm() with upload
endRaceDone(m, upload) ==
    /\ BagIn(m, net)
    /\ m.op = "endRace"
    /\ m.stage = "response"
    /\ IF Ok(m)
       THEN /\ buttons' = [startTimer |-> TRUE, recordFinish |-> TRUE, endRace |-> TRUE]
            /\ net' = IF Len(results) > 0 /\ isOnline /\ upload /\ currentRaceId # 0
                      THEN Send(Take(net, m), Request("uploadResults", currentRaceId, results))
                      ELSE Take(net, m)
       ELSE /\ buttons' = buttons
            /\ net' = Take(net, m)
    /\ NoReturn
    /\ UNCHANGED <<now, isOnline, stored, syncStatusHidden, currentRaceId, results, timer,
                   serverVars, history>>

\* RaceControlApp.clearResults(), the operator confirming
appClearResults ==
    /\ Len(results) # 0
    /\ results' = <<>>
    /\ stored' = clearResults
    /\ checkUnsyncedData(stored', isOnline)
    /\ cleared' = cleared \cup {stored.results[k] : k \in 1..Len(stored.results)}
                           \cup {[raceId |-> currentRaceId, runnerNumber |-> results[k].runnerNumber,
                                  finishTime |-> results[k].finishTime] : k \in 1..Len(results)}
    /\ NoReturn
    /\ UNCHANGED <<now, isOnline, currentRaceId, timer, buttons, net,
                   serverVars, recorded, foreign, rejected>>

\* deleteRace(raceId) up to its await, from the card of a completed race
deleteRace(raceId) ==
    /\ dbRaces[raceId].exists
    /\ dbRaces[raceId].status = "completed"
    /\ isOnline
    /\ BagCardinality(net) < MaxInFlight
    /\ net' = Send(net, Request("deleteRace", raceId, <<>>))
    /\ NoReturn
    /\ UNCHANGED <<clientVars, serverVars, history>>

\* deleteRace(raceId) after its await: on success it calls loadRaces()
deleteRaceDone(m) ==
    /\ BagIn(m, net)
    /\ m.op = "deleteRace"
    /\ m.stage = "response"
    /\ net' = IF Ok(m) /\ isOnline
              THEN Send(Take(net, m), Request("loadRaces", 0, <<>>))
              ELSE Take(net, m)
    /\ NoReturn
    /\ UNCHANGED <<clientVars, serverVars, history>>

\* loadRaces() up to its await
loadRaces ==
    /\ isOnline
    /\ BagCardinality(net) < MaxInFlight
    /\ net' = Send(net, Request("loadRaces", 0, <<>>))
    /\ NoReturn
    /\ UNCHANGED <<clientVars, serverVars, history>>

\* loadRaces() after its await: the list is drawn, or the failure is notified
loadRacesDone(m) ==
    /\ BagIn(m, net)
    /\ m.op = "loadRaces"
    /\ m.stage = "response"
    /\ net' = Take(net, m)
    /\ NoReturn
    /\ UNCHANGED <<clientVars, serverVars, history>>

\* loadRaceResults(raceId) up to its first await, from the card of a listed race
loadRaceResults(raceId) ==
    /\ raceId \in 1..dbSeq
    /\ isOnline
    /\ BagCardinality(net) < MaxInFlight
    /\ net' = Send(net, Request("loadRaceResults", raceId, <<>>))
    /\ NoReturn
    /\ UNCHANGED <<clientVars, serverVars, history>>

\* loadRaceResults(raceId) between its awaits: with the race details it sets
\* currentRaceId and fetches the results, with no second look at the flag
loadRaceResultsRace(m) ==
    /\ BagIn(m, net)
    /\ m.op = "loadRaceResults"
    /\ m.stage = "response"
    /\ IF Ok(m)
       THEN /\ currentRaceId' = m.raceId
            /\ net' = Send(Take(net, m), Request("getResults", m.raceId, <<>>))
       ELSE /\ currentRaceId' = currentRaceId
            /\ net' = Take(net, m)
    /\ NoReturn
    /\ UNCHANGED <<now, isOnline, stored, syncStatusHidden, results, timer, buttons,
                   serverVars, history>>

\* loadRaceResults(raceId) after its second await: the table is drawn
loadRaceResultsDone(m) ==
    /\ BagIn(m, net)
    /\ m.op = "getResults"
    /\ m.stage = "response"
    /\ net' = Take(net, m)
    /\ NoReturn
    /\ UNCHANGED <<clientVars, serverVars, history>>

\* the wall clock of the device advances
Tick ==
    /\ now < MaxTime
    /\ now' = now + 1
    /\ NoReturn
    /\ UNCHANGED <<isOnline, stored, syncStatusHidden, appVars, net, serverVars, history>>

\* ------------------------------------------------------------------ server
\* the database as the server's single connection sees it
DB == [races |-> dbRaces, results |-> dbResults, seq |-> dbSeq, tx |-> dbTx]

\* BEGIN TRANSACTION: fails, changing nothing, inside an open transaction
Begin(D) ==
    IF D.tx.open THEN D
    ELSE [D EXCEPT !.tx = [open |-> TRUE, races |-> D.races, results |-> D.results,
                           seq |-> D.seq]]

\* COMMIT
Commit(D) == [D EXCEPT !.tx = NoTx]

\* ROLLBACK: fails, changing nothing, outside a transaction
Rollback(D) ==
    IF D.tx.open
    THEN [races |-> D.tx.races, results |-> D.tx.results, seq |-> D.tx.seq, tx |-> NoTx]
    ELSE D

\* !runnerNumber || !finishTime is false
Valid(e) == e.runnerNumber # 0 /\ e.finishTime # 0

\* index of the first entry the forEach rejects, Len + 1 when there is none
FirstInvalid(body) ==
    IF \E k \in 1..Len(body) : ~Valid(body[k])
    THEN CHOOSE k \in 1..Len(body) :
            ~Valid(body[k]) /\ \A j \in 1..(k - 1) : Valid(body[j])
    ELSE Len(body) + 1

RECURSIVE Inserted_StopsEarly(_, _, _, _, _)
\* the INSERTs of a loop that stops one entry early
Inserted_StopsEarly(raceId, body, deviceId, k, skip) ==
    IF k >= Len(body) \/ ~Valid(body[k]) THEN <<>>
    ELSE (IF k = skip THEN <<>>
          ELSE <<[raceId |-> raceId, runnerNumber |-> body[k].runnerNumber,
                  finishTime |-> body[k].finishTime, uploadedBy |-> deviceId]>>)
         \o Inserted_StopsEarly(raceId, body, deviceId, k + 1, skip)

RECURSIVE Inserted(_, _, _, _, _)
\* rows the queued INSERTs add: entries k..upto of body but the failing one
Inserted(raceId, body, deviceId, k, skip) ==
    IF k > Len(body) \/ ~Valid(body[k]) THEN <<>>
    ELSE (IF k = skip THEN <<>>
          ELSE <<[raceId |-> raceId, runnerNumber |-> body[k].runnerNumber,
                  finishTime |-> body[k].finishTime, uploadedBy |-> deviceId]>>)
         \o Inserted(raceId, body, deviceId, k + 1, skip)

\* POST /api/races/:id/results.  isArray: results is a list; failAt: the entry
\* whose INSERT fails (0: none).  The forEach queues every INSERT, and line 159
\* queues COMMIT, before any INSERT callback runs: a ROLLBACK issued by a
\* callback runs after them.
PostResults(D, raceId, body, isArray, deviceId, failAt) ==
    IF ~isArray THEN [db |-> D, status |-> "400"]
    ELSE LET v == FirstInvalid(body)
             failed == failAt \in 1..(v - 1)
             filled == [Begin(D) EXCEPT
                          !.results = @ (+) SeqToBag(Inserted(raceId, body, deviceId, 1, failAt))]
         IN  IF v <= Len(body)
             THEN [db |-> IF failed THEN Rollback(filled) ELSE filled, status |-> "400"]
             ELSE [db |-> Commit(filled), status |-> IF failed THEN "500" ELSE "200"]

\* POST /api/races
PostRace(D) ==
    [db |-> [D EXCEPT !.seq = @ + 1,
                      !.races[D.seq + 1] = [exists |-> TRUE, status |-> "pending",
                                            startTime |-> 0]],
     status |-> "200", id |-> D.seq + 1]

\* PUT /api/races/:id/start at server time t
PutStart(D, raceId, t) ==
    IF ~D.races[raceId].exists THEN [db |-> D, status |-> "404"]
    ELSE [db |-> [D EXCEPT !.races[raceId].startTime = t,
                           !.races[raceId].status = "active"],
          status |-> "200"]

\* PUT /api/races/:id/end
PutEnd(D, raceId) ==
    IF ~D.races[raceId].exists THEN [db |-> D, status |-> "404"]
    ELSE [db |-> [D EXCEPT !.races[raceId].status = "completed"], status |-> "200"]

\* GET /api/races/:id
GetRace(D, raceId) ==
    IF ~D.races[raceId].exists THEN [status |-> "404", race |-> NoRace]
    ELSE [status |-> "200", race |-> D.races[raceId]]

\* DELETE /api/races/:id
DeleteRace(D, raceId) ==
    LET begun == Begin(D)
        kept == {x \in BagToSet(begun.results) : x.raceId # raceId}
        without == [begun EXCEPT !.results = [x \in kept |-> begun.results[x]]]
    IN  IF ~D.races[raceId].exists
        THEN [db |-> Rollback(without), status |-> "404"]
        ELSE [db |-> Commit([without EXCEPT !.races[raceId] = NoRace]), status |-> "200"]

\* the server answers the request m with status and race row, leaving database D
Answer(m, D, status, raceId, race) ==
    /\ net' = Send(Take(net, m), [m EXCEPT !.stage = "response", !.status = status,
                                             !.raceId = raceId, !.race = race])
    /\ dbRaces' = D.races
    /\ dbResults' = D.results
    /\ dbSeq' = D.seq
    /\ dbTx' = D.tx
    /\ BagCardinality(D.results) <= MaxRows
    /\ NoReturn
    /\ UNCHANGED <<clientVars, history>>

\* the request m reaches the server
AtServer(m, op) ==
    /\ BagIn(m, net)
    /\ m.stage = "request"
    /\ m.op = op

servePostRace(m) ==
    /\ AtServer(m, "createRace")
    /\ LET r == PostRace(DB) IN Answer(m, r.db, r.status, r.id, NoRace)

serveGetRace(m) ==
    /\ \E op \in {"loadRaceControl", "loadRaceResults"} : AtServer(m, op)
    /\ LET r == GetRace(DB, m.raceId) IN Answer(m, DB, r.status, m.raceId, r.race)

\* GET /api/races: every row
serveGetRaces(m) ==
    /\ AtServer(m, "loadRaces")
    /\ Answer(m, DB, "200", 0, NoRace)

\* GET /api/races/:id/results: the rows of GetResults, none for an absent race
serveGetResults(m) ==
    /\ AtServer(m, "getResults")
    /\ Answer(m, DB, "200", m.raceId, NoRace)

servePutStart(m) ==
    /\ AtServer(m, "startRace")
    /\ LET r == PutStart(DB, m.raceId, now) IN Answer(m, r.db, r.status, m.raceId, NoRace)

servePutEnd(m) ==
    /\ AtServer(m, "endRace")
    /\ LET r == PutEnd(DB, m.raceId) IN Answer(m, r.db, r.status, m.raceId, NoRace)

serveDelete(m) ==
    /\ AtServer(m, "deleteRace")
    /\ LET r == DeleteRace(DB, m.raceId) IN Answer(m, r.db, r.status, m.raceId, NoRace)

servePostResults(m, failAt) ==
    /\ BagIn(m, net)
    /\ m.stage = "request"
    /\ m.op \in {"syncResults", "uploadResults"}
    /\ failAt \in 0..Len(m.results)
    /\ LET r == PostResults(DB, m.raceId, m.results, TRUE, m.deviceId, failAt)
       IN  Answer(m, r.db, r.status, m.raceId, NoRace)

\* GET /api/races/:id/results without the test of raceStartTime
GetResults_NoNull(D, raceId) ==
    LET raceStartTime == D.races[raceId].startTime
    IN  { [runnerNumber |-> row.runnerNumber, finishTime |-> row.finishTime,
           raceTime |-> [null |-> FALSE, ms |-> row.finishTime - raceStartTime],
           uploadedBy |-> row.uploadedBy] :
          row \in {x \in BagToSet(D.results) : x.raceId = raceId} }

\* GET /api/races/:id/results: the rows a reader is shown
GetResults(D, raceId) ==
    LET raceStartTime == D.races[raceId].startTime
    IN  { [runnerNumber |-> row.runnerNumber, finishTime |-> row.finishTime,
           raceTime |-> IF raceStartTime # 0
                        THEN [null |-> FALSE, ms |-> row.finishTime - raceStartTime]
                        ELSE [null |-> TRUE, ms |-> 0],
           uploadedBy |-> row.uploadedBy] :
          row \in {x \in BagToSet(D.results) : x.raceId = raceId} }

\* another client posts its batch to POST /api/races/:id/results
foreignPost(raceId, body, isArray, failAt) ==
    /\ foreign < MaxForeign
    /\ failAt \in 0..Len(body)
    /\ foreign' = foreign + 1
    /\ LET r == PostResults(DB, raceId, body, isArray, foreign + 1, failAt)
       IN  /\ dbRaces' = r.db.races
           /\ dbResults' = r.db.results
           /\ dbSeq' = r.db.seq
           /\ dbTx' = r.db.tx
           /\ BagCardinality(r.db.results) <= MaxRows
           /\ rejected' = IF r.status # "200" THEN rejected \cup {foreign + 1} ELSE rejected
    /\ NoReturn
    /\ UNCHANGED <<clientVars, net, recorded, cleared>>

\* the server leaves database D after a request of another client
Leaves(D) ==
    /\ dbRaces' = D.races
    /\ dbResults' = D.results
    /\ dbSeq' = D.seq
    /\ dbTx' = D.tx
    /\ NoReturn
    /\ UNCHANGED <<clientVars, net, history>>

\* another client creates, starts, ends or deletes a race
otherPostRace == dbSeq < MaxRaces /\ Leaves(PostRace(DB).db)
otherPutStart(raceId) == Leaves(PutStart(DB, raceId, now).db)
otherPutEnd(raceId) == Leaves(PutEnd(DB, raceId).db)
otherDelete(raceId) == Leaves(DeleteRace(DB, raceId).db)

\* the server process ends (SIGINT closes the database) and is started again:
\* SQLite rolls the open transaction back
serverRestart ==
    /\ dbTx.open
    /\ LET D == Rollback(DB)
       IN  /\ dbRaces' = D.races
           /\ dbResults' = D.results
           /\ dbSeq' = D.seq
           /\ dbTx' = D.tx
    /\ NoReturn
    /\ UNCHANGED <<clientVars, net, history>>

\* ---------------------------------------------------------- service worker
CACHE_NAME == "race-control-v1"

\* the cache of the generation deployed before this one, when there was one
OldCache == "race-control-v0"

CacheNames == <<OldCache, CACHE_NAME>>

\* self.location.origin, and the other origins pages load from.  An origin is
\* the sequence of the pieces of its text, so that String.startsWith is the
\* prefix test on the pieces.
Origin == <<"https://race.example">>
OtherOrigins == { <<"https://cdn.example">>, <<"https://race.example", ".evil.test">> }

\* request.url: the text of a URL is the text of its origin, then of its path
Url(origin, path) == [origin |-> origin, path |-> path]
href(url) == url.origin \o url.path

ASSETS_TO_CACHE ==
    << <<"/">>, <<"/index.html">>, <<"/style.css">>, <<"/app.js">>, <<"/timer.js">>,
       <<"/offline.js">>, <<"/manifest.json">> >>

\* the requests cache.addAll(ASSETS_TO_CACHE) makes
Manifest == { Url(Origin, ASSETS_TO_CACHE[i]) : i \in 1..Len(ASSETS_TO_CACHE) }

\* String.prototype.startsWith and includes, on the pieces of the text
startsWith(text, prefix) ==
    Len(prefix) <= Len(text) /\ SubSeq(text, 1, Len(prefix)) = prefix
includes(text, piece) == \E i \in 1..Len(text) : text[i] = piece

\* the requests the pages issue: shell assets and other assets with GET, the
\* REST interface with every method, and GET to other origins
SwRequests ==
    {[url |-> Url(Origin, p), method |-> "GET"] : p \in {<<"/index.html">>, <<"/logo.png">>, <<"/favicon.ico">>}}
    \cup {[url |-> Url(Origin, <<"/api/", "races">>), method |-> mt] :
             mt \in {"GET", "POST", "PUT", "DELETE"}}
    \cup {[url |-> Url(o, <<"/lib.js">>), method |-> "GET"] : o \in OtherOrigins}

\* responses: of the network, of a cache of the old generation, and the one the
\* worker makes up
NetResponse(request, status) ==
    [status |-> status, type |-> IF request.url.origin = Origin THEN "basic" ELSE "cors",
     body |-> "network", offline |-> FALSE]
OldResponse == [status |-> "200", type |-> "basic", body |-> "old", offline |-> FALSE]
OfflineResponse == [status |-> "503", type |-> "default", body |-> "offline", offline |-> TRUE]

\* what fetch(event.request) comes to: it rejects ("failed"), or a status
NetOutcomes == {"failed", "200", "404"}

NoCache == [exists |-> FALSE, entries |-> {}]

\* caches.match(request): the first entry for the URL of a GET request, looking
\* through the caches in the order of their creation; <<>> is undefined
match(C, request) ==
    LET hit(n) == {e \in C[CacheNames[n]].entries : e.url = request.url}
        found == {n \in 1..Len(CacheNames) :
                     C[CacheNames[n]].exists /\ request.method = "GET" /\ hit(n) # {}}
    IN  IF found = {} THEN <<>>
        ELSE LET n == CHOOSE k \in found : \A j \in found : k <= j
             IN  <<(CHOOSE e \in hit(n) : TRUE).response>>

\* caches.open(name).then(cache => cache.put(request, response))
put(C, name, request, response) ==
    [C EXCEPT ![name] = [exists |-> TRUE,
                         entries |-> {e \in C[name].entries : e.url # request.url}
                                     \cup {[url |-> request.url, response |-> response]}]]

\* what an event left: the strategy that handled the request, how the request
\* was answered (kind "none": respondWith was not called; "error": the promise
\* given to respondWith rejected or resolved to undefined), whether the network
\* was asked, whether caches.match was called, and the caches activate deleted
Handled(event, request, strategy, kind, response, network, read, deleted) ==
    [event |-> event, request |-> request, strategy |-> strategy, kind |-> kind,
     response |-> response, network |-> network, read |-> read, deleted |-> deleted]

NoRequest == [url |-> Url(<<>>, <<>>), method |-> "none"]
NoResponse == [status |-> "none", type |-> "none", body |-> "none", offline |-> FALSE]
NoEvent == Handled("none", NoRequest, "none", "none", NoResponse, FALSE, FALSE, {})

\* a step of the service worker leaves the page and the server alone
WorkerOnly ==
    /\ syncRet' = Returns(FALSE, "none")
    /\ NoCall
    /\ UNCHANGED <<clientVars, deviceVars, net, serverVars, history>>

\* the install handler storing what it could fetch, one request at a time
install_Partial(fetched) ==
    /\ worker \in {"parsed", "redundant"}
    /\ fetched \subseteq Manifest
    /\ caches' = [caches EXCEPT ![CACHE_NAME] =
                     [exists |-> TRUE,
                      entries |-> {e \in @.entries : e.url \notin fetched}
                                  \cup {[url |-> u,
                                         response |-> NetResponse([url |-> u], "200")] :
                                        u \in fetched}]]
    /\ worker' = IF fetched = Manifest THEN "installed" ELSE "redundant"
    /\ swRet' = Handled("install", NoRequest, "none", "none", NoResponse, TRUE, FALSE, {})
    /\ WorkerOnly

\* the install handler: caches.open(CACHE_NAME), then cache.addAll(ASSETS_TO_CACHE),
\* which stores every response or, when a request of the list fails, none.
\* fetched is the set of the requests of the list the network answers with 200.
install(fetched) ==
    /\ worker \in {"parsed", "redundant"}
    /\ fetched \subseteq Manifest
    /\ caches' = [caches EXCEPT ![CACHE_NAME] =
                     [exists |-> TRUE,
                      entries |-> IF fetched = Manifest
                                  THEN {e \in @.entries : e.url \notin Manifest}
                                       \cup {[url |-> u,
                                              response |-> NetResponse([url |-> u], "200")] :
                                             u \in Manifest}
                                  ELSE @.entries]]
    /\ worker' = IF fetched = Manifest THEN "installed" ELSE "redundant"
    /\ swRet' = Handled("install", NoRequest, "none", "none", NoResponse, TRUE, FALSE, {})
    /\ WorkerOnly

\* the activate handler deleting no cache
activate_KeepsOld ==
    /\ worker = "installed"
    /\ caches' = caches
    /\ worker' = "activated"
    /\ swRet' = Handled("activate", NoRequest, "none", "none", NoResponse, FALSE, FALSE, {})
    /\ WorkerOnly

\* the activate handler: caches.delete of every cache not named CACHE_NAME
activate ==
    /\ worker = "installed"
    /\ LET stale == {n \in DOMAIN caches : n # CACHE_NAME /\ caches[n].exists}
       IN  /\ caches' = [n \in DOMAIN caches |-> IF n \in stale THEN NoCache ELSE caches[n]]
           /\ swRet' = Handled("activate", NoRequest, "none", "none", NoResponse,
                               FALSE, FALSE, stale)
    /\ worker' = "activated"
    /\ WorkerOnly

\* the fetch handler with no catch on the network request of the API branch
fetch_ApiNoCatch(request, outcome) ==
    /\ worker = "activated"
    /\ caches' = caches
    /\ swRet' = IF outcome = "failed"
                THEN Handled("fetch", request, "api", "error", NoResponse, TRUE, FALSE, {})
                ELSE Handled("fetch", request, "api", "response",
                             NetResponse(request, outcome), TRUE, FALSE, {})

\* the fetch handler storing the API responses it gets with GET
fetch_ApiCached(request, outcome) ==
    /\ worker = "activated"
    /\ caches' = IF request.method = "GET" /\ outcome = "200"
                 THEN put(caches, CACHE_NAME, request, NetResponse(request, outcome))
                 ELSE caches
    /\ swRet' =
          IF outcome # "failed"
          THEN Handled("fetch", request, "api", "response",
                       NetResponse(request, outcome), TRUE, FALSE, {})
          ELSE IF request.method = "GET"
          THEN LET cached == match(caches, request)
               IN  IF cached = <<>>
                   THEN Handled("fetch", request, "api", "error", NoResponse, TRUE, TRUE, {})
                   ELSE Handled("fetch", request, "api", "response", cached[1],
                                TRUE, TRUE, {})
          ELSE Handled("fetch", request, "api", "response", OfflineResponse,
                       TRUE, FALSE, {})

\* the API branch of the fetch handler: the network first
fetchApi(request, outcome) ==
    /\ worker = "activated"
    /\ caches' = caches
    /\ swRet' =
          IF outcome # "failed"
          THEN Handled("fetch", request, "api", "response",
                       NetResponse(request, outcome), TRUE, FALSE, {})
          ELSE IF request.method = "GET"
          THEN LET cached == match(caches, request)
               IN  IF cached = <<>>
                   THEN Handled("fetch", request, "api", "error", NoResponse, TRUE, TRUE, {})
                   ELSE Handled("fetch", request, "api", "response", cached[1],
                                TRUE, TRUE, {})
          ELSE Handled("fetch", request, "api", "response", OfflineResponse,
                       TRUE, FALSE, {})

\* the static branch storing every response it gets
fetchStatic_StoresAll(request, outcome) ==
    LET cached == match(caches, request)
    IN  /\ worker = "activated"
        /\ IF cached # <<>>
           THEN /\ caches' = caches
                /\ swRet' = Handled("fetch", request, "static", "response", cached[1],
                                    FALSE, TRUE, {})
           ELSE IF outcome = "failed"
           THEN /\ caches' = caches
                /\ swRet' = Handled("fetch", request, "static", "error", NoResponse,
                                    TRUE, TRUE, {})
           ELSE /\ caches' = put(caches, CACHE_NAME, request, NetResponse(request, outcome))
                /\ swRet' = Handled("fetch", request, "static", "response",
                                    NetResponse(request, outcome), TRUE, TRUE, {})

\* the static branch of the fetch handler: the cache first
fetchStatic(request, outcome) ==
    LET cached == match(caches, request)
        fetchResponse == NetResponse(request, outcome)
    IN  /\ worker = "activated"
        /\ IF cached # <<>>
           THEN /\ caches' = caches
                /\ swRet' = Handled("fetch", request, "static", "response", cached[1],
                                    FALSE, TRUE, {})
           ELSE IF outcome = "failed"
           THEN /\ caches' = caches
                /\ swRet' = Handled("fetch", request, "static", "error", NoResponse,
                                    TRUE, TRUE, {})
           ELSE /\ caches' = IF fetchResponse.status # "200" \/ fetchResponse.type # "basic"
                             THEN caches
                             ELSE put(caches, CACHE_NAME, request, fetchResponse)
                /\ swRet' = Handled("fetch", request, "static", "response", fetchResponse,
                                    TRUE, TRUE, {})

\* the fetch handler, for a request of a page the worker controls
fetch(request, outcome) ==
    /\ IF ~startsWith(href(request.url), Origin)
       THEN /\ worker = "activated"
            /\ caches' = caches
            /\ swRet' = Handled("fetch", request, "none", "none", NoResponse,
                                FALSE, FALSE, {})
       ELSE IF includes(href(request.url), "/api/")
       THEN fetchApi(request, outcome)
       ELSE fetchStatic(request, outcome)
    /\ worker' = worker
    /\ WorkerOnly

\* ----------------------------------------------------------------- network
\* fetch() of m fails: the service worker answers a non-GET request with
\* its 503 (sw.js), a page it does not control sees the rejection ("error")
netFail(m, status) ==
    /\ BagIn(m, net)
    /\ m.status \notin {"503", "error"}
    /\ status \in {"503", "error"}
    /\ m.op = "loadRaceControl" => status = "error"
    /\ net' = Send(Take(net, m), [m EXCEPT !.stage = "response", !.status = status])
    /\ NoReturn
    /\ UNCHANGED <<clientVars, serverVars, history>>

\* ------------------------------------------------------------ specification
\* the batches another client posts
ForeignBodies ==
    { <<Entry(1, 1)>>, <<Entry(1, 1), Entry(2, 1)>>, <<Entry(1, 1), Entry(0, 1)>>,
      <<Entry(0, 1), Entry(1, 1)>>, <<Entry(1, 0)>>, <<Entry(2, MaxTime)>> }

Init ==
    /\ now = 1
    /\ isOnline \in BOOLEAN
    /\ stored = NoData
    /\ syncStatusHidden = TRUE
    /\ offlineStorage = [deviceId |-> <<ThisDevice>>]
    /\ localDeviceId = <<ThisDevice>>
    /\ generated = <<ThisDevice>>
    /\ caches = [n \in {OldCache, CACHE_NAME} |-> NoCache]
    /\ worker = "parsed"
    /\ swRet = NoEvent
    /\ syncRet = Returns(FALSE, "none")
    /\ timerRet = Called("none", "Idle", <<>>, 0)
    /\ currentRaceId = 0
    /\ results = <<>>
    /\ timer = NewTimer
    /\ buttons = [startTimer |-> TRUE, recordFinish |-> TRUE, endRace |-> TRUE]
    /\ net = EmptyBag
    /\ dbRaces = [r \in RaceIds |-> NoRace]
    /\ dbResults = EmptyBag
    /\ dbSeq = 0
    /\ dbTx = NoTx
    /\ recorded = EmptyBag
    /\ foreign = 0
    /\ cleared = {}
    /\ rejected = {}

Next ==
    \/ Tick
    \/ \E online \in BOOLEAN : handleConnectionChange(online)
    \/ syncResults
    \/ \E m \in BagToSet(net) : syncResultsDone(m)
    \/ createRace
    \/ \E m \in BagToSet(net) : createRaceDone(m)
    \/ \E raceId \in RaceIds : loadRaceControl(raceId)
    \/ \E m \in BagToSet(net) : loadRaceControlDone(m)
    \/ startRace
    \/ \E m \in BagToSet(net) : startRaceDone(m)
    \/ \E runnerNumber \in Runners : recordFinish(runnerNumber)
    \/ uploadResults
    \/ \E m \in BagToSet(net) : uploadResultsDone(m)
    \/ endRace
    \/ \E m \in BagToSet(net), upload \in BOOLEAN : endRaceDone(m, upload)
    \/ appClearResults
    \/ \E raceId \in RaceIds : deleteRace(raceId)
    \/ \E m \in BagToSet(net) : deleteRaceDone(m)
    \/ loadRaces
    \/ \E m \in BagToSet(net) : loadRacesDone(m)
    \/ \E raceId \in RaceIds : loadRaceResults(raceId)
    \/ \E m \in BagToSet(net) : loadRaceResultsRace(m)
    \/ \E m \in BagToSet(net) : loadRaceResultsDone(m)
    \/ \E m \in BagToSet(net) : serveGetRaces(m)
    \/ \E m \in BagToSet(net) : serveGetResults(m)
    \/ \E m \in BagToSet(net) : serveDelete(m)
    \/ otherPostRace
    \/ \E raceId \in RaceIds : otherPutStart(raceId)
    \/ \E raceId \in RaceIds : otherPutEnd(raceId)
    \/ \E raceId \in RaceIds : otherDelete(raceId)
    \/ \E m \in BagToSet(net) : servePostRace(m)
    \/ \E m \in BagToSet(net) : serveGetRace(m)
    \/ \E m \in BagToSet(net) : servePutStart(m)
    \/ \E m \in BagToSet(net) : servePutEnd(m)
    \/ \E m \in BagToSet(net), failAt \in 0..MaxFinishes : servePostResults(m, failAt)
    \/ \E raceId \in RaceIds, body \in ForeignBodies, isArray \in BOOLEAN,
          failAt \in 0..MaxFinishes : foreignPost(raceId, body, isArray, failAt)
    \/ serverRestart
    \/ \E m \in BagToSet(net), status \in {"503", "error"} : netFail(m, status)

Spec == Init /\ [][Next]_vars

\* The synchronisation subsystem on its own: the server already holds every
\* race, started at time 1 (created and started from this or another device),
\* and the page has just been loaded.
InitSync ==
    /\ now = 1
    /\ isOnline \in BOOLEAN
    /\ stored = NoData
    /\ syncStatusHidden = TRUE
    /\ offlineStorage = [deviceId |-> <<ThisDevice>>]
    /\ localDeviceId = <<ThisDevice>>
    /\ generated = <<ThisDevice>>
    /\ caches = [n \in {OldCache, CACHE_NAME} |-> NoCache]
    /\ worker = "parsed"
    /\ swRet = NoEvent
    /\ syncRet = Returns(FALSE, "none")
    /\ timerRet = Called("none", "Idle", <<>>, 0)
    /\ currentRaceId = 0
    /\ results = <<>>
    /\ timer = NewTimer
    /\ buttons = [startTimer |-> TRUE, recordFinish |-> TRUE, endRace |-> TRUE]
    /\ net = EmptyBag
    /\ dbRaces = [r \in RaceIds |-> [exists |-> TRUE, status |-> "active", startTime |-> 1]]
    /\ dbResults = EmptyBag
    /\ dbSeq = MaxRaces
    /\ dbTx = NoTx
    /\ recorded = EmptyBag
    /\ foreign = 0
    /\ cleared = {}
    /\ rejected = {}

NextSync ==
    \/ \E online \in BOOLEAN : handleConnectionChange(online)
    \/ syncResults
    \/ \E m \in BagToSet(net) : syncResultsDone(m)
    \/ \E raceId \in RaceIds : loadRaceControl(raceId)
    \/ \E m \in BagToSet(net) : loadRaceControlDone(m)
    \/ \E runnerNumber \in Runners : recordFinish(runnerNumber)
    \/ uploadResults
    \/ \E m \in BagToSet(net) : uploadResultsDone(m)
    \/ appClearResults
    \/ \E m \in BagToSet(net) : serveGetRace(m)
    \/ \E m \in BagToSet(net), failAt \in 0..MaxFinishes : servePostResults(m, failAt)
    \/ \E m \in BagToSet(net), status \in {"503", "error"} : netFail(m, status)

SpecSync == InitSync /\ [][NextSync]_vars

\* The server on its own, answering clients of the REST interface one request
\* at a time, from the database setup leaves.
InitServer == Init /\ isOnline

NextServer ==
    \/ \E raceId \in RaceIds, body \in ForeignBodies, isArray \in BOOLEAN,
          failAt \in 0..MaxFinishes : foreignPost(raceId, body, isArray, failAt)
    \/ otherPostRace
    \/ \E raceId \in RaceIds : otherPutStart(raceId)
    \/ \E raceId \in RaceIds : otherPutEnd(raceId)
    \/ \E raceId \in RaceIds : otherDelete(raceId)
    \/ Tick
    \/ serverRestart

SpecServer == InitServer /\ [][NextServer]_vars

\* One browser over several page loads: the first load has just constructed
\* OfflineStorage over an empty localStorage, drawing some token; the server
\* holds every race, started at time 1.
InitDevice ==
    /\ now = 1
    /\ isOnline \in BOOLEAN
    /\ stored = NoData
    /\ syncStatusHidden = TRUE
    /\ \E token \in DeviceTokens :
          LET c == constructor(<<>>, token)
          IN  /\ offlineStorage = [deviceId |-> c.deviceId]
              /\ localDeviceId = c.local
              /\ generated = c.generated
    /\ caches = [n \in {OldCache, CACHE_NAME} |-> NoCache]
    /\ worker = "parsed"
    /\ swRet = NoEvent
    /\ syncRet = Returns(FALSE, "none")
    /\ timerRet = Called("none", "Idle", <<>>, 0)
    /\ currentRaceId = 0
    /\ results = <<>>
    /\ timer = NewTimer
    /\ buttons = [startTimer |-> TRUE, recordFinish |-> TRUE, endRace |-> TRUE]
    /\ net = EmptyBag
    /\ dbRaces = [r \in RaceIds |-> [exists |-> TRUE, status |-> "active", startTime |-> 1]]
    /\ dbResults = EmptyBag
    /\ dbSeq = MaxRaces
    /\ dbTx = NoTx
    /\ recorded = EmptyBag
    /\ foreign = 0
    /\ cleared = {}
    /\ rejected = {}

NextDevice ==
    \/ \E token \in DeviceTokens, online \in BOOLEAN : pageLoad(token, online)
    \/ \E online \in BOOLEAN : handleConnectionChange(online)
    \/ \E raceId \in RaceIds : loadRaceControl(raceId)
    \/ \E m \in BagToSet(net) : loadRaceControlDone(m)
    \/ \E runnerNumber \in Runners : recordFinish(runnerNumber)
    \/ syncResults
    \/ \E m \in BagToSet(net) : syncResultsDone(m)
    \/ uploadResults
    \/ \E m \in BagToSet(net) : uploadResultsDone(m)
    \/ \E m \in BagToSet(net) : serveGetRace(m)
    \/ \E m \in BagToSet(net), failAt \in 0..MaxFinishes : servePostResults(m, failAt)

SpecDevice == InitDevice /\ [][NextDevice]_vars

\* The service worker on its own, from its registration: the origin's cache
\* storage is empty, or holds the cache of the generation deployed before.
InitWorker ==
    /\ now = 1
    /\ isOnline \in BOOLEAN
    /\ stored = NoData
    /\ syncStatusHidden = TRUE
    /\ offlineStorage = [deviceId |-> <<ThisDevice>>]
    /\ localDeviceId = <<ThisDevice>>
    /\ generated = <<ThisDevice>>
    /\ caches \in { [n \in {OldCache, CACHE_NAME} |-> NoCache],
                     [n \in {OldCache, CACHE_NAME} |->
                        IF n = OldCache
                        THEN [exists |-> TRUE,
                              entries |-> {[url |-> Url(Origin, <<"/index.html">>),
                                            response |-> OldResponse],
                                           [url |-> Url(Origin, <<"/api/", "races">>),
                                            response |-> OldResponse]}]
                        ELSE NoCache] }
    /\ worker = "parsed"
    /\ swRet = NoEvent
    /\ syncRet = Returns(FALSE, "none")
    /\ timerRet = Called("none", "Idle", <<>>, 0)
    /\ currentRaceId = 0
    /\ results = <<>>
    /\ timer = NewTimer
    /\ buttons = [startTimer |-> TRUE, recordFinish |-> TRUE, endRace |-> TRUE]
    /\ net = EmptyBag
    /\ dbRaces = [r \in RaceIds |-> NoRace]
    /\ dbResults = EmptyBag
    /\ dbSeq = 0
    /\ dbTx = NoTx
    /\ recorded = EmptyBag
    /\ foreign = 0
    /\ cleared = {}
    /\ rejected = {}

NextWorker ==
    \/ \E fetched \in SUBSET Manifest : install(fetched)
    \/ activate
    \/ \E request \in SwRequests, outcome \in NetOutcomes : fetch(request, outcome)

SpecWorker == InitWorker /\ [][NextWorker]_vars

\* One device running a race: the server already holds race 1, pending, and
\* the page has just been loaded, online.  Another device may start the race
\* too, and a request may fail on its way.
InitRace ==
    /\ now = 1
    /\ isOnline = TRUE
    /\ stored = NoData
    /\ syncStatusHidden = TRUE
    /\ offlineStorage = [deviceId |-> <<ThisDevice>>]
    /\ localDeviceId = <<ThisDevice>>
    /\ generated = <<ThisDevice>>
    /\ caches = [n \in {OldCache, CACHE_NAME} |-> NoCache]
    /\ worker = "parsed"
    /\ swRet = NoEvent
    /\ syncRet = Returns(FALSE, "none")
    /\ timerRet = Called("none", "Idle", <<>>, 0)
    /\ currentRaceId = 0
    /\ results = <<>>
    /\ timer = NewTimer
    /\ buttons = [startTimer |-> TRUE, recordFinish |-> TRUE, endRace |-> TRUE]
    /\ net = EmptyBag
    /\ dbRaces = [r \in RaceIds |-> IF r = 1
                                    THEN [exists |-> TRUE, status |-> "pending", startTime |-> 0]
                                    ELSE NoRace]
    /\ dbResults = EmptyBag
    /\ dbSeq = 1
    /\ dbTx = NoTx
    /\ recorded = EmptyBag
    /\ foreign = 0
    /\ cleared = {}
    /\ rejected = {}

NextRace ==
    \/ Tick
    \/ \E raceId \in RaceIds : loadRaceControl(raceId)
    \/ \E m \in BagToSet(net) : loadRaceControlDone(m)
    \/ startRace
    \/ \E m \in BagToSet(net) : startRaceDone(m)
    \/ \E runnerNumber \in Runners : recordFinish(runnerNumber)
    \/ endRace
    \/ \E m \in BagToSet(net), upload \in BOOLEAN : endRaceDone(m, upload)
    \/ \E m \in BagToSet(net) : uploadResultsDone(m)
    \/ \E raceId \in RaceIds : otherPutStart(raceId)
    \/ \E m \in BagToSet(net) : serveGetRace(m)
    \/ \E m \in BagToSet(net) : servePutStart(m)
    \/ \E m \in BagToSet(net) : servePutEnd(m)
    \/ \E m \in BagToSet(net), failAt \in 0..MaxFinishes : servePostResults(m, failAt)
    \/ \E m \in BagToSet(net), status \in {"503", "error"} : netFail(m, status)

SpecRace == InitRace /\ [][NextRace]_vars

\* The foreground operations under changing connectivity: the races created
\* so far have been deleted again, leaving one id to give out, and the page has
\* just been loaded with navigator.onLine false, so that every request follows
\* an online event.  The operator records finishes for runner 1.
InitConnect ==
    /\ now = 1
    /\ isOnline = FALSE
    /\ stored = NoData
    /\ syncStatusHidden = TRUE
    /\ offlineStorage = [deviceId |-> <<ThisDevice>>]
    /\ localDeviceId = <<ThisDevice>>
    /\ generated = <<ThisDevice>>
    /\ caches = [n \in {OldCache, CACHE_NAME} |-> NoCache]
    /\ worker = "parsed"
    /\ swRet = NoEvent
    /\ syncRet = Returns(FALSE, "none")
    /\ timerRet = Called("none", "Idle", <<>>, 0)
    /\ currentRaceId = 0
    /\ results = <<>>
    /\ timer = NewTimer
    /\ buttons = [startTimer |-> TRUE, recordFinish |-> TRUE, endRace |-> TRUE]
    /\ net = EmptyBag
    /\ dbRaces = [r \in RaceIds |-> NoRace]
    /\ dbResults = EmptyBag
    /\ dbSeq = MaxRaces - 1
    /\ dbTx = NoTx
    /\ recorded = EmptyBag
    /\ foreign = 0
    /\ cleared = {}
    /\ rejected = {}

NextConnect ==
    \/ \E online \in BOOLEAN : handleConnectionChange(online)
    \/ createRace
    \/ \E m \in BagToSet(net) : createRaceDone(m)
    \/ loadRaces
    \/ \E m \in BagToSet(net) : loadRacesDone(m)
    \/ \E raceId \in RaceIds : loadRaceControl(raceId)
    \/ \E m \in BagToSet(net) : loadRaceControlDone(m)
    \/ startRace
    \/ \E m \in BagToSet(net) : startRaceDone(m)
    \/ recordFinish(1)
    \/ endRace
    \/ \E m \in BagToSet(net), upload \in BOOLEAN : endRaceDone(m, upload)
    \/ uploadResults
    \/ \E m \in BagToSet(net) : uploadResultsDone(m)
    \/ syncResults
    \/ \E m \in BagToSet(net) : syncResultsDone(m)
    \/ \E raceId \in RaceIds : deleteRace(raceId)
    \/ \E m \in BagToSet(net) : deleteRaceDone(m)
    \/ \E raceId \in RaceIds : loadRaceResults(raceId)
    \/ \E m \in BagToSet(net) : loadRaceResultsRace(m)
    \/ \E m \in BagToSet(net) : loadRaceResultsDone(m)
    \/ \E m \in BagToSet(net) : servePostRace(m)
    \/ \E m \in BagToSet(net) : serveGetRaces(m)
    \/ \E m \in BagToSet(net) : serveGetRace(m)
    \/ \E m \in BagToSet(net) : serveGetResults(m)
    \/ \E m \in BagToSet(net) : servePutStart(m)
    \/ \E m \in BagToSet(net) : servePutEnd(m)
    \/ \E m \in BagToSet(net) : serveDelete(m)
    \/ \E m \in BagToSet(net) : servePostResults(m, 0)

SpecConnect == InitConnect /\ [][NextConnect]_vars

\* The timer on its own: its methods called in any order, with and without a
\* start time, as the clock advances.
StartArgs == {<<>>} \cup {<<v>> : v \in 0..(MaxTime + 1)}

NextTimer ==
    \/ \E arg \in StartArgs : callStart(arg)
    \/ callStop
    \/ callReset
    \/ callGetElapsedTime
    \/ callRecordFinish
    \/ Tick

SpecTimer == Init /\ [][NextTimer]_vars

\* ------------------------------------------------------------------ claims
\* the row POST /api/races/:id/results stores for a finish f this device recorded
RowOf(f) ==
    [raceId |-> f.raceId, runnerNumber |-> f.runnerNumber, finishTime |-> f.finishTime,
     uploadedBy |-> ThisDevice]

\* the finish f is in the persisted queue
InQueue(f) == stored.present /\ \E k \in 1..Len(stored.results) : stored.results[k] = f

\* the syncResults() uploads not yet completed
SyncsInFlight == {m \in BagToSet(net) : m.op = "syncResults"}

\* C1: at-most-once delivery.  Whatever the operator does and however each
\* upload ends, the remote results table never holds more rows for a finish
\* than the number of times that finish was recorded.
C1_AtMostOnce ==
    \A f \in BagToSet(recorded) : CopiesIn(RowOf(f), dbResults) <= CopiesIn(f, recorded)

\* C2: no recorded finish is lost.  Every finish that was recorded and that the
\* operator did not clear is still in the local queue or is in the remote store.
C2_NoFinishLost ==
    \A f \in BagToSet(recorded) :
        f \notin cleared => InQueue(f) \/ BagIn(RowOf(f), dbResults)

\* C3: re-entrancy.  A syncResults() call made while the upload of a prior call
\* is in flight issues no request: at most one upload of syncResults() is in
\* flight at any time.
C3_OneSyncInFlight ==
    /\ Cardinality(SyncsInFlight) <= 1
    /\ \A m \in SyncsInFlight : CopiesIn(m, net) = 1

\* C4: a result stored after a syncResults() upload began is not part of that
\* batch and is still queued when that upload succeeds: the success step leaves
\* in the queue exactly the entries that follow the uploaded batch.
C4_LaterResultsStayQueued ==
    [][\A m \in BagToSet(net) :
          ( /\ syncResultsDone(m)
            /\ m.status = "200"
            /\ stored.present
            /\ stored.raceId = m.raceId
            /\ Len(stored.results) > Len(m.results)
            /\ \A k \in 1..Len(m.results) :
                  /\ stored.results[k].runnerNumber = m.results[k].runnerNumber
                  /\ stored.results[k].finishTime = m.results[k].finishTime )
          => /\ stored'.present
             /\ stored'.results = SubSeq(stored.results, Len(m.results) + 1, Len(stored.results))
      ]_vars

\* C5: a failed syncResults() (an HTTP error status, the service worker's 503,
\* or a rejected fetch) leaves the persisted queue as it is and returns false.
C5_FailedSyncKeepsQueue ==
    [][\A m \in BagToSet(net) :
          (syncResultsDone(m) /\ m.status # "200")
          => /\ stored' = stored
             /\ syncRet' = [value |-> FALSE, message |-> "Failed to synchronize results"]
      ]_vars

\* C5 witness: a sync has just failed and the queue still holds results
C5_Witness ==
    /\ syncRet = [value |-> FALSE, message |-> "Failed to synchronize results"]
    /\ stored.present
    /\ Len(stored.results) > 0

\* the rows the entries of the upload m are stored as
RowsOf(m) ==
    SeqToBag([k \in 1..Len(m.results) |->
                [raceId |-> m.raceId, runnerNumber |-> m.results[k].runnerNumber,
                 finishTime |-> m.results[k].finishTime, uploadedBy |-> m.deviceId]])

\* C6: a succeeding syncResults() empties the queue, and the request the server
\* answers with 200 adds to the remote store exactly the rows of its batch, each
\* once; at the moment the call returns true every entry of the batch is stored.
C6_SuccessfulSync ==
    [][ /\ \A m \in BagToSet(net) :
              (syncResultsDone(m) /\ m.status = "200")
              => /\ (~stored'.present \/ Len(stored'.results) = 0)
                 /\ syncRet'.value = TRUE
                 /\ \A x \in BagToSet(RowsOf(m)) : BagIn(x, dbResults)
        /\ \A m \in BagToSet(net), failAt \in 0..MaxFinishes :
              ( /\ servePostResults(m, failAt)
                /\ m.op = "syncResults"
                /\ net' = (net (-) SetToBag({m}))
                          (+) SetToBag({[m EXCEPT !.stage = "response", !.status = "200"]}) )
              => dbResults' = dbResults (+) RowsOf(m)
      ]_vars

\* C6 witness: a sync of two results has just returned true
C6_Witness ==
    /\ syncRet.value = TRUE
    /\ stored = NoData
    /\ BagCardinality(dbResults) = 2
    /\ \A f \in BagToSet(recorded) : CopiesIn(RowOf(f), dbResults) = CopiesIn(f, recorded)

\* C8: syncResults() called while the connectivity flag is offline returns
\* false, issues no request and leaves the queue and the remote store alone.
C8_OfflineSync ==
    [][(syncResults /\ ~isOnline)
       => /\ net' = net
          /\ stored' = stored
          /\ dbResults' = dbResults
          /\ syncRet' = [value |-> FALSE, message |-> "Cannot sync while offline"]
      ]_vars

\* C8 witness: an offline sync has just been refused with results queued
C8_Witness ==
    /\ syncRet = [value |-> FALSE, message |-> "Cannot sync while offline"]
    /\ ~isOnline
    /\ stored.present
    /\ Len(stored.results) > 0

\* C9: syncResults() called online with an empty or absent queue returns false,
\* issues no request and leaves the queue and the remote store alone.
C9_EmptySync ==
    [][(syncResults /\ isOnline /\ (~stored.present \/ Len(stored.results) = 0))
       => /\ net' = net
          /\ stored' = stored
          /\ dbResults' = dbResults
          /\ syncRet' = [value |-> FALSE, message |-> "No data to synchronize"]
      ]_vars

\* C9 witness: a re-sync after every recorded finish was delivered
C9_Witness ==
    /\ syncRet = [value |-> FALSE, message |-> "No data to synchronize"]
    /\ stored = NoData
    /\ recorded # EmptyBag
    /\ \A f \in BagToSet(recorded) : BagIn(RowOf(f), dbResults)

\* C10: online with a non-empty queue, syncResults() issues exactly one request,
\* carrying the device identity and the queued results in queue order; and the
\* queue order is the order of the storeResult() calls (each appends at the end).
C10_OneRequestFifo ==
    [][ /\ (syncResults /\ isOnline /\ stored.present /\ Len(stored.results) > 0)
           => net' = net (+) SetToBag({
                 [op |-> "syncResults", stage |-> "request", raceId |-> stored.raceId,
                  results |-> [k \in 1..Len(stored.results) |->
                                 [runnerNumber |-> stored.results[k].runnerNumber,
                                  finishTime |-> stored.results[k].finishTime]],
                  deviceId |-> ThisDevice, status |-> "none", race |-> NoRace]})
        /\ \A r \in Runners :
              recordFinish(r)
              => stored'.results =
                    (IF stored.present /\ stored.raceId = currentRaceId
                     THEN stored.results ELSE <<>>)
                    \o <<[raceId |-> currentRaceId, runnerNumber |-> r, finishTime |-> now]>>
      ]_vars

\* C10 witness: a sync request in flight carries two results in the order stored,
\* which is not the order of their runner numbers
C10_Witness ==
    \E m \in BagToSet(net) :
        /\ m.op = "syncResults"
        /\ m.stage = "request"
        /\ Len(m.results) = 2
        /\ m.results[1].runnerNumber > m.results[2].runnerNumber
        /\ stored.present
        /\ Len(stored.results) = 2
        /\ stored.results[1].runnerNumber = m.results[1].runnerNumber

\* C7: the batch insert is all-or-nothing.  No row of a batch the server answered
\* with an error is shown by a later results query.
C7_BatchAtomic ==
    \A k \in rejected, raceId \in RaceIds :
        \A row \in GetResults(DB, raceId) : row.uploadedBy # k

\* C11: race isolation.  storeResult(result) on a queue held for another race
\* leaves a queue for result.raceId holding exactly [result]; on a queue held
\* for the same race it appends result after the existing entries.
C11_RaceIsolation ==
    [][\A r \in Runners :
          recordFinish(r)
          => LET result == [raceId |-> currentRaceId, runnerNumber |-> r, finishTime |-> now]
             IN  /\ (stored.present /\ stored.raceId # currentRaceId)
                    => stored' = [present |-> TRUE, raceId |-> currentRaceId,
                                  results |-> <<result>>]
                 /\ (stored.present /\ stored.raceId = currentRaceId)
                    => stored' = [present |-> TRUE, raceId |-> currentRaceId,
                                  results |-> stored.results \o <<result>>]
      ]_vars

\* C11 witness: a result was stored for a race other than the one the queue was
\* held for, and the queue holds that result alone
C11_Witness ==
    /\ stored.present
    /\ Len(stored.results) = 1
    /\ BagCardinality(recorded) = 2
    /\ \E f \in BagToSet(recorded) : f.raceId # stored.raceId

\* C12: queue invariant.  Every result of the persisted queue record carries
\* the raceId of the record.
C12_QueueOneRace ==
    stored.present => \A k \in 1..Len(stored.results) : stored.results[k].raceId = stored.raceId

\* C12 witness: the queue holds a result stored after results of another race
C12_Witness ==
    /\ stored.present
    /\ Len(stored.results) > 0
    /\ \E f \in BagToSet(recorded) : f.raceId # stored.raceId /\ ~BagIn(RowOf(f), dbResults)

\* C13: the queue is cleared only entirely and only after a confirmed upload.
\* Every step that removes a queued result, other than the operator's own
\* Clear Results, empties the queue and is the success step of an upload that
\* carried exactly the queued results.
C13_ClearedOnlyAfterUpload ==
    [][( /\ stored.present
         /\ \E k \in 1..Len(stored.results) :
               ~stored'.present
               \/ \A j \in 1..Len(stored'.results) : stored'.results[j] # stored.results[k]
         /\ ~appClearResults )
       => /\ (~stored'.present \/ Len(stored'.results) = 0)
          /\ \E m \in BagToSet(net) :
                /\ m.op \in {"syncResults", "uploadResults"}
                /\ m.stage = "response"
                /\ m.status = "200"
                /\ net' = net (-) SetToBag({m})
                /\ m.raceId = stored.raceId
                /\ m.results = [k \in 1..Len(stored.results) |->
                                  [runnerNumber |-> stored.results[k].runnerNumber,
                                   finishTime |-> stored.results[k].finishTime]]
      ]_vars

\* position of a status in (pending, active, completed)
Rank(status) == IF status = "pending" THEN 1 ELSE IF status = "active" THEN 2 ELSE 3

\* C14: Race.status is monotonic.  No start or end request the server accepts
\* moves the status of a race backwards in (pending, active, completed); a
\* completed race never becomes active again.
C14_StatusMonotonic ==
    [][\A r \in RaceIds :
          ((otherPutStart(r) \/ otherPutEnd(r)) /\ dbRaces[r].exists)
          => Rank(dbRaces[r].status) <= Rank(dbRaces'[r].status)
      ]_vars

\* C15: startTime is assigned exactly once.  Once the startTime of a race is
\* set, no later start or end request changes it.
C15_StartTimeOnce ==
    [][\A r \in RaceIds :
          ((otherPutStart(r) \/ otherPutEnd(r)) /\ dbRaces[r].exists /\ dbRaces[r].startTime # 0)
          => dbRaces'[r].startTime = dbRaces[r].startTime
      ]_vars

\* C17: raceTime correctness.  The results query shows every stored row of the
\* race, each with raceTime = finishTime - startTime of the race, and with a
\* null raceTime when the startTime of the race is unset.
C17_RaceTime ==
    \A raceId \in RaceIds :
        /\ \A row \in GetResults(DB, raceId) :
              IF dbRaces[raceId].startTime # 0
              THEN /\ ~row.raceTime.null
                   /\ row.raceTime.ms + dbRaces[raceId].startTime = row.finishTime
              ELSE row.raceTime.null
        /\ \A x \in BagToSet(dbResults) :
              x.raceId = raceId
              => \E row \in GetResults(DB, raceId) :
                    /\ row.runnerNumber = x.runnerNumber
                    /\ row.finishTime = x.finishTime
                    /\ row.uploadedBy = x.uploadedBy

\* C17 witness: the query shows a row with a positive raceTime for a started
\* race and a row with a null raceTime for a race that was never started
C17_Witness ==
    /\ \E raceId \in RaceIds : \E row \in GetResults(DB, raceId) :
          ~row.raceTime.null /\ row.raceTime.ms > 0
    /\ \E raceId \in RaceIds : \E row \in GetResults(DB, raceId) :
          row.raceTime.null /\ dbRaces[raceId].exists

\* C18: start is idempotent while Running.  start() on a Running timer, with or
\* without an argument, returns the existing startTime and changes neither the
\* startTime nor the state nor the number of active periodic ticks.
C18_StartIdempotent ==
    [][\A arg \in StartArgs :
          (callStart(arg) /\ timer.isRunning)
          => /\ timerRet'.value = timer.startTime
             /\ timer'.startTime = timer.startTime
             /\ timer'.isRunning
             /\ timer'.ticks = timer.ticks
      ]_vars

\* C18 witness: start(v) was called on a Running timer and the timer still
\* holds another startTime
C18_Witness ==
    /\ timerRet.op = "start"
    /\ timerRet.from = "Running"
    /\ timerRet.arg # <<>>
    /\ timerRet.arg[1] \notin {0, timer.startTime}
    /\ timer.isRunning
    /\ timer.ticks = 1
    /\ timer.startTime # now

\* C19: start(t) on a timer that is not Running moves it to Running and records
\* startTime = t for every supplied value t, the wall clock when no value is
\* supplied, and returns the recorded startTime.
C19_StartRecords ==
    [][\A arg \in StartArgs :
          (callStart(arg) /\ ~timer.isRunning)
          => /\ timer'.isRunning
             /\ timer'.startTime = (IF arg = <<>> THEN now ELSE arg[1])
             /\ timerRet'.value = timer'.startTime
      ]_vars

\* C20: recordFinish() returns the wall clock when and only when the timer is
\* Running; in Idle and Stopped it returns null; it never changes the timer.
C20_RecordFinish ==
    [][callRecordFinish
       => /\ timer' = timer
          /\ timer.isRunning => timerRet'.value = now
          /\ ~timer.isRunning => timerRet'.value = 0
      ]_vars

\* C20 witness: recordFinish() returned null on a Stopped timer
C20_Witness ==
    /\ timerRet.op = "recordFinish"
    /\ timerRet.from = "Stopped"
    /\ timerRet.value = 0
    /\ timer.startTime # 0

\* C16: every recorded finishTime, in the local queue or in the remote store,
\* is greater than or equal to the startTime of the race it belongs to.
C16_FinishAfterStart ==
    /\ stored.present
       => \A k \in 1..Len(stored.results) :
             stored.results[k].finishTime >= dbRaces[stored.results[k].raceId].startTime
    /\ \A x \in BagToSet(dbResults) : x.finishTime >= dbRaces[x.raceId].startTime

\* C21: stop() moves a Running timer to Stopped keeping its startTime, and from
\* Idle or Stopped it changes nothing: state, startTime and tick stay as they are.
C21_Stop ==
    [][callStop
       => /\ timer.isRunning
             => /\ ~timer'.isRunning
                /\ timer'.startTime = timer.startTime
                /\ timer'.startTime # 0
          /\ ~timer.isRunning => timer' = timer
      ]_vars

\* C21 witness: stop() was called on a Running timer, which is now Stopped
C21_Witness ==
    /\ timerRet.op = "stop"
    /\ timerRet.from = "Running"
    /\ ~timer.isRunning
    /\ timer.startTime # 0

\* C22: reset() from Idle, Running or Stopped leaves the timer Idle with its
\* startTime cleared: the elapsed time is then 0 and recordFinish() is null,
\* both as computed on the timer reset() leaves and as returned by a call made
\* right after it.
C22_Reset ==
    [][ /\ callReset
           => /\ ~timer'.isRunning
              /\ timer'.startTime = 0
              /\ getElapsedTime(timer') = 0
              /\ RaceTimer_recordFinish(timer') = 0
        /\ (timerRet.op = "reset" /\ (callGetElapsedTime \/ callRecordFinish))
           => timerRet'.value = 0
      ]_vars

\* C22 witness: reset() was called on a Running timer, which is now Idle
C22_Witness ==
    /\ timerRet.op = "reset"
    /\ timerRet.from = "Running"
    /\ ~timer.isRunning
    /\ timer.startTime = 0
    /\ now > 1

\* an upload request that is in flight after the step and was not before it
NewUpload ==
    \E m \in BagToSet(net') :
        /\ m.op \in {"syncResults", "uploadResults"}
        /\ m.stage = "request"
        /\ CopiesIn(m, net') > CopiesIn(m, net)

\* C30: a connectivity transition inspects the queue (the indicator shows
\* exactly when results are queued and the device is online), issues no request
\* and leaves the queue unchanged; an upload request is only ever issued by a
\* step of syncResults() or uploadResults().
C30_OnlineDoesNotUpload ==
    [][ /\ \A online \in BOOLEAN :
              (handleConnectionChange(online) /\ isOnline # online)
              => /\ net' = net
                 /\ stored' = stored
                 /\ syncStatusHidden' =
                       ~(online /\ stored.present /\ Len(stored.results) > 0)
        /\ NewUpload => (syncResults \/ uploadResults)
      ]_vars

\* C30 witness: the device came online with results queued: the indicator is
\* shown and no request is in flight
C30_Witness ==
    /\ isOnline
    /\ stored.present
    /\ Len(stored.results) > 0
    /\ ~syncStatusHidden
    /\ net = EmptyBag
    /\ dbResults = EmptyBag
    /\ \E f \in BagToSet(recorded) : f.raceId # stored.raceId

\* C29: device identity is generated once and is stable.  Over any number of
\* page loads on the same localStorage, generateDeviceId() has run once,
\* getDeviceId() is the token of the first start, and every upload in flight
\* and every row uploaded from this browser carries that token.
C29_DeviceIdStable ==
    /\ Len(generated) = 1
    /\ offlineStorage.deviceId = <<generated[1]>>
    /\ localDeviceId = <<generated[1]>>
    /\ \A m \in BagToSet(net) :
          m.op \in {"syncResults", "uploadResults"} => m.deviceId = generated[1]
    /\ \A x \in BagToSet(dbResults) : x.uploadedBy = generated[1]

\* C29 witness: after a restart (no race is selected, yet results of the earlier
\* page are queued) an upload is in flight, and a row uploaded before is stored
C29_Witness ==
    /\ currentRaceId = 0
    /\ stored.present
    /\ dbResults # EmptyBag
    /\ \E m \in BagToSet(net) : m.op = "syncResults" /\ m.deviceId = generated[1]

\* the URL is classified as an API request
IsApi(url) == \E i \in 1..Len(url.path) : url.path[i] = "/api/"

\* C23: API requests are network-first and never written to the cache.  The
\* current cache never holds an entry for an API request, after activation no
\* cache does, and a fetch of an API request the network answers returns that
\* answer as it is and leaves the caches alone.
C23_ApiNeverCached ==
    [][ /\ \A e \in caches'[CACHE_NAME].entries : ~IsApi(e.url)
        /\ worker' = "activated"
           => \A n \in DOMAIN caches' : \A e \in caches'[n].entries : ~IsApi(e.url)
        /\ \A request \in SwRequests, outcome \in NetOutcomes :
              ( /\ fetch(request, outcome)
                /\ request.url.origin = Origin
                /\ IsApi(request.url)
                /\ outcome # "failed" )
              => /\ caches' = caches
                 /\ swRet'.kind = "response"
                 /\ swRet'.response = [status |-> outcome, type |-> "basic",
                                       body |-> "network", offline |-> FALSE]
      ]_vars

\* C23 witness: a GET of the REST interface was answered by the network with a
\* 200, by a worker whose cache holds entries
C23_Witness ==
    /\ swRet.event = "fetch"
    /\ swRet.request = [url |-> Url(Origin, <<"/api/", "races">>), method |-> "GET"]
    /\ swRet.response.body = "network"
    /\ swRet.response.status = "200"
    /\ caches[CACHE_NAME].entries # {}

\* C24: when the network request of an API request fails, a GET is answered
\* with the cached response for that request if there is one, and a request of
\* any other method is answered with the made-up 503 response that carries
\* offline: true, never with an error.
C24_ApiOffline ==
    [][\A request \in SwRequests :
          ( /\ fetch(request, "failed")
            /\ request.url.origin = Origin
            /\ IsApi(request.url) )
          => /\ request.method = "GET"
                => \A n \in DOMAIN caches : \A e \in caches[n].entries :
                      e.url = request.url
                      => swRet'.kind = "response" /\ swRet'.response = e.response
             /\ request.method # "GET"
                => /\ swRet'.kind = "response"
                   /\ swRet'.response.status = "503"
                   /\ swRet'.response.offline
      ]_vars

\* C24 witness: a DELETE of the REST interface was answered with the 503
C24_Witness ==
    /\ swRet.event = "fetch"
    /\ swRet.request.method = "DELETE"
    /\ swRet.response.status = "503"
    /\ swRet.response.offline
    /\ swRet.network

\* the response stored for the URL in the cache of the current generation
StoredFor(C, url) == {e.response : e \in {x \in C[CACHE_NAME].entries : x.url = url}}

\* C25: static asset requests are cache-first.  A request with a cached entry is
\* answered with it and the network is not asked; on a miss the answer of the
\* network is returned, and it is stored in the cache if and only if it is a
\* same-origin response with status 200.
C25_StaticCacheFirst ==
    [][\A request \in SwRequests, outcome \in NetOutcomes :
          ( /\ fetch(request, outcome)
            /\ swRet'.strategy = "static" )
          => LET held == \E n \in DOMAIN caches : \E e \in caches[n].entries :
                            e.url = request.url
                 answer == [status |-> outcome,
                            type |-> IF request.url.origin = Origin THEN "basic" ELSE "cors",
                            body |-> "network", offline |-> FALSE]
             IN  /\ held => /\ ~swRet'.network
                            /\ swRet'.kind = "response"
                            /\ \E n \in DOMAIN caches : \E e \in caches[n].entries :
                                  e.url = request.url /\ e.response = swRet'.response
                            /\ caches' = caches
                 /\ (~held /\ outcome # "failed")
                    => /\ swRet'.network
                       /\ swRet'.response = answer
                       /\ (answer \in StoredFor(caches', request.url))
                          <=> (request.url.origin = Origin /\ outcome = "200")
      ]_vars

\* C25 witness: an asset that is not in the manifest was answered from the
\* cache, where an earlier miss had stored it
C25_Witness ==
    /\ swRet.event = "fetch"
    /\ swRet.request.url = Url(Origin, <<"/logo.png">>)
    /\ ~swRet.network
    /\ swRet.response.body = "network"

\* C26: precache is all-or-nothing.  install succeeds exactly when every entry
\* of the manifest was fetched, and then every entry is in the cache; when an
\* entry cannot be fetched install fails and has stored nothing.
C26_PrecacheAtomic ==
    [][\A fetched \in SUBSET Manifest :
          install(fetched)
          => /\ worker' = "installed" <=> fetched = Manifest
             /\ fetched = Manifest
                => \A u \in Manifest : \E e \in caches'[CACHE_NAME].entries : e.url = u
             /\ fetched # Manifest
                => /\ worker' = "redundant"
                   /\ caches'[CACHE_NAME].entries = caches[CACHE_NAME].entries
      ]_vars

\* C26 witness: install has failed and the cache it opened is empty
C26_Witness ==
    /\ swRet.event = "install"
    /\ worker = "redundant"
    /\ caches[CACHE_NAME].exists
    /\ caches[CACHE_NAME].entries = {}

\* C27: cache-version isolation.  Once the worker is activated no cache of
\* another name exists, and no request is answered with an entry of the
\* generation before.
C27_VersionIsolation ==
    /\ worker = "activated" => \A n \in DOMAIN caches : caches[n].exists => n = CACHE_NAME
    /\ swRet.event = "fetch" => swRet.response.body # "old"

\* C27 witness: activation has just deleted the cache of the generation before
C27_Witness ==
    /\ worker = "activated"
    /\ swRet.event = "activate"
    /\ swRet.deleted = {OldCache}
    /\ ~caches[OldCache].exists
    /\ caches[CACHE_NAME].entries # {}

\* C28: every intercepted same-origin request is handled by exactly one of the
\* two strategies, and a cross-origin request by neither: the cache is neither
\* read nor written for it, and respondWith is not called.
C28_OneStrategy ==
    [][\A request \in SwRequests, outcome \in NetOutcomes :
          fetch(request, outcome)
          => /\ request.url.origin = Origin
                => swRet'.strategy = (IF IsApi(request.url) THEN "api" ELSE "static")
             /\ request.url.origin # Origin
                => /\ swRet'.strategy = "none"
                   /\ swRet'.kind = "none"
                   /\ ~swRet'.read
                   /\ caches' = caches
      ]_vars

\* the operations whose request is the first one a foreground operation issues
FirstRequests ==
    {"createRace", "loadRaces", "loadRaceControl", "startRace", "endRace",
     "uploadResults", "deleteRace", "loadRaceResults", "syncResults"}

\* the first requests this step issues
Issued ==
    {m \in BagToSet(net') :
        /\ m.op \in FirstRequests
        /\ m.stage = "request"
        /\ CopiesIn(m, net') > CopiesIn(m, net)}

\* C31: every foreground operation that needs the network looks at the
\* connectivity flag right before its first request: a step that issues such a
\* request is taken with the flag online; the flag is what the most recent
\* online/offline event set it to, as only such an event changes it.
C31_ChecksConnectivity ==
    [][ /\ Issued # {} => (isOnline /\ isOnline')
        /\ \A online \in BOOLEAN : handleConnectionChange(online) => isOnline' = online
        /\ isOnline' # isOnline => \E online \in BOOLEAN : handleConnectionChange(online)
      ]_vars

\* C31 witness: the page was loaded offline, an online event came, results were
\* recorded and uploadResults() has issued its request with the flag online
C31_Witness ==
    /\ isOnline
    /\ \E m \in BagToSet(net) :
          /\ m.op = "uploadResults"
          /\ m.stage = "request"
          /\ Len(m.results) > 0

\* C32: the periodic display tick is active exactly while the timer is Running:
\* after any sequence of start(), stop() and reset() calls one interval is set
\* when the timer is Running, and none when it is Idle or Stopped.
C32_TickIffRunning ==
    timer.ticks = (IF timer.isRunning THEN 1 ELSE 0)

\* C32 witness: stop() has just cleared the interval of a Running timer, which
\* is Stopped with no interval left
C32_Witness ==
    /\ timerRet.op = "stop"
    /\ timerRet.from = "Running"
    /\ ~timer.isRunning
    /\ timer.startTime # 0
    /\ timer.ticks = 0

\* how many entries of RaceControlApp.results are the finish f
Held(f) ==
    Cardinality({k \in 1..Len(results) :
                    /\ f.raceId = currentRaceId
                    /\ results[k] = Entry(f.runnerNumber, f.finishTime)})

\* C33: RaceControlApp.results holds no finish that has been delivered to the
\* remote store: once no upload is in flight, a recorded finish is not both
\* held by the app and stored remotely (counting a finish recorded twice as
\* two), so that after a successful Sync Now uploadResults() has nothing to send.
C33_ResultsNotDelivered ==
    (\A m \in BagToSet(net) : m.op \notin {"syncResults", "uploadResults"})
    => \A f \in BagToSet(recorded) :
          Held(f) + CopiesIn(RowOf(f), dbResults) <= CopiesIn(f, recorded)

\* C34: when startRace() fails, on a non-success response or on a transport
\* error of fetch, the local timer is not Running once startRace() is over.
C34_FailedStartStopsTimer ==
    [][\A m \in BagToSet(net) :
          (startRaceDone(m) /\ m.status # "200") => ~timer'.isRunning
      ]_vars

\* C35: after construction and after every operation on the queue or on the
\* connectivity flag, the 'unsynced data' indicator is visible exactly when the
\* persisted queue holds results and the flag is online.
C35_IndicatorFollowsQueue ==
    ~syncStatusHidden <=> (stored.present /\ Len(stored.results) > 0 /\ isOnline)

\* C35 witness: the page has been loaded again, online, over a queue of two
\* results: the constructor shows the indicator
C35_Witness ==
    /\ Len(generated) = 1
    /\ stored.present
    /\ Len(stored.results) > 1
    /\ isOnline
    /\ ~syncStatusHidden
    /\ currentRaceId = 0

\* C36: referential integrity of the remote store: after any sequence of
\* create, delete and upload requests every row of the results table names a
\* race that exists.
C36_ReferentialIntegrity ==
    \A row \in BagToSet(dbResults) : dbRaces[row.raceId].exists

====
